---- MODULE Spec2Model ----
(***************************************************************************)
(* Model of the school math-statistics scripts of edu_datamining:          *)
(*   final_term/a.py  - per-school block scan of "<school>_班級.csv"       *)
(*   final_term/b.py  - multi-file aggregation with encoding fallback      *)
(*   final_term/c.py  - read_score_file (encoding fallback over pandas)    *)
(*   mid_term_presentation .../app.py - load_all_data                      *)
(* A behaviour is one run of one script; `script` says which.              *)
(***************************************************************************)
EXTENDS Integers, Sequences, FiniteSets, TLC

VARIABLES
    script,                         \* which script this run executes
    \* ---- a.py ----
    a_files,                        \* files_to_process: the input files, in list order
    a_fi,                           \* main(): index of the file being handled
    a_pc,                           \* "main" | "scan" | "done" | "aborted"
    a_ri,                           \* parse_csv_for_math_stats: index i of the scan loop (1-based)
    total_math_assigned,
    total_math_completed,
    sum_of_valid_correct_rates,
    count_of_valid_correct_rates,
    results,                        \* main(): list of result tuples
    a_log,                          \* messages printed by a.py, in order
    \* ---- b.py ----
    b_cwd,                          \* main(): what the working directory is like
    b_files,                        \* csv_files / filepaths, in list order
    b_fi,                           \* index of the file of the outer loop
    b_ei,                           \* index of the encoding of the inner loop
    b_pc,                           \* "main" | "file" | "enc" | "endfile" | "done" | "aborted"
    file_processed,
    school_stats,                   \* school name -> record; a key exists once it was touched
    b_attempts,                     \* every open() of the run: file, encoding, outcome
    b_log,                          \* messages printed by b.py, in order
    b_table,                        \* the rows print_stats_table printed, by school
    \* ---- c.py, read_score_file ----
    c_file,                         \* the file behind file_path
    c_ei,                           \* index of the encoding of the loop
    c_pc,                           \* "loop" | "done"
    c_result,                       \* "pending" | "df" | "None"
    c_attempts,                     \* every pd.read_csv of the run: encoding, outcome
    c_log,                          \* messages printed by read_score_file
    \* ---- app.py, load_all_data ----
    app_files,                      \* file_paths
    app_fi,                         \* index of the file of the loop
    app_pc,                         \* "loop" | "done"
    all_data,                       \* the frames appended, by file index
    app_log                         \* messages printed by load_all_data and read_data

a_vars == <<a_files, a_fi, a_pc, a_ri, total_math_assigned, total_math_completed,
            sum_of_valid_correct_rates, count_of_valid_correct_rates, results, a_log>>

b_vars == <<b_cwd, b_files, b_fi, b_ei, b_pc, file_processed, school_stats, b_attempts, b_log,
            b_table>>

c_vars == <<c_file, c_ei, c_pc, c_result, c_attempts, c_log>>

app_vars == <<app_files, app_fi, app_pc, all_data, app_log>>

vars == <<script, a_vars, b_vars, c_vars, app_vars>>

\* what a step of one script leaves alone
NotA == <<script, b_vars, c_vars, app_vars>>

NotB == <<script, a_vars, c_vars, app_vars>>

NotC == <<script, a_vars, b_vars, app_vars>>

NotApp == <<script, a_vars, b_vars, c_vars>>

(***************************************************************************)
(* Bounds of the model.                                                    *)
(***************************************************************************)
MaxRowsA == 2        \* data rows in the measurement block of a rich a.py file
MaxFilesA == 2       \* files in a.py's files_to_process
MaxRowsB == 2        \* data rows of a rich b.py file
MaxFilesB == 2       \* files in b.py's csv_files
MaxFilesApp == 3     \* files in app.py's file_paths
MantissaBits == 8    \* significand width of the modelled float (binary64 has 53)

(***************************************************************************)
(* Cell texts.  Python's str.strip, str.isspace, int() and float() are     *)
(* given by their value on each cell text that occurs in the model.        *)
(***************************************************************************)
Strip(s) == IF s = " " THEN "" ELSE IF s = " A " THEN "A" ELSE s

IsSpace(s) == s = " "

IntTable == ("0" :> 0) @@ ("2" :> 2) @@ ("3" :> 3) @@ ("5" :> 5) @@ ("8" :> 8)
            @@ ("10" :> 10)

\* float() of a cell text, in hundredths
FloatTable == ("0.01" :> 1) @@ ("0.6" :> 60) @@ ("0.8" :> 80) @@ ("2.56" :> 256)
              @@ ("0.60" :> 60) @@ ("0.80" :> 80)
              @@ ("0" :> 0) @@ ("2" :> 200) @@ ("3" :> 300) @@ ("5" :> 500)
              @@ ("8" :> 800) @@ ("10" :> 1000)

\* int(s) succeeds (otherwise ValueError)
CanInt(s) == s \in DOMAIN IntTable

\* float(s) succeeds (otherwise ValueError)
CanFloat(s) == s \in DOMAIN FloatTable

RECURSIVE Pow2(_)
Pow2(n) == IF n = 0 THEN 1 ELSE 2 * Pow2(n - 1)

RECURSIVE BitLen(_)
BitLen(n) == IF n = 0 THEN 0 ELSE 1 + BitLen(n \div 2)

\* nearest value with MantissaBits significant bits, ties to even
RoundFloat(n) ==
    IF BitLen(n) <= MantissaBits THEN n
    ELSE LET ulp == Pow2(BitLen(n) - MantissaBits)
             q == n \div ulp
             r == n % ulp
         IN  IF 2 * r < ulp THEN q * ulp
             ELSE IF 2 * r > ulp THEN (q + 1) * ulp
             ELSE IF q % 2 = 0 THEN q * ulp ELSE (q + 1) * ulp

\* float addition: the exact sum, rounded
FAdd(x, y) == RoundFloat(x + y)

\* mutant: the quotient is cut off instead of rounded
RoundDivTruncates(n, d) == n \div d

\* n/d rounded to the nearest integer, ties to even (d > 0)
RoundDiv(n, d) ==
    LET q == n \div d
        r == n % d
    IN  IF 2 * r < d THEN q
        ELSE IF 2 * r > d THEN q + 1
        ELSE IF q % 2 = 0 THEN q ELSE q + 1

\* a formatted rate: "N/A", or a percentage with two decimals kept as basis points
NA == [kind |-> "N/A", bp |-> 0]

Pct(bp) == [kind |-> "pct", bp |-> bp]

(***************************************************************************)
(* a.py: rows are sequences of cell texts; Python index k is TLA+ index    *)
(* k + 1.  TestToken stands for the cell text "測驗" and ClassToken for    *)
(* "班級" (cell texts of the model are ASCII).                             *)
(***************************************************************************)
TestToken == "TEST"

ClassToken == "CLASS"

math_tasks_assigned_col == 9

math_tasks_completed_col == 10

math_correct_rate_col == 12

Max3(x, y, z) == IF x >= y /\ x >= z THEN x ELSE IF y >= z THEN y ELSE z

\* row[k] with Python's 0-based index
Cell(row, k) == row[k + 1]

\* all(not cell or cell.isspace() for cell in row)
AllBlank(row) == \A j \in 1..Len(row) : row[j] = "" \/ IsSpace(row[j])

\* the condition of line 50: not row or not row[0] or row[0] == "班級"
NoClassName(row) == row = <<>> \/ row[1] = "" \/ row[1] = ClassToken

\* 1-based index of the first row whose first cell is "測驗", 0 when there is none
RECURSIVE FindTestFrom(_, _)
FindTestFrom(rows, i) ==
    IF i > Len(rows) THEN 0
    ELSE IF rows[i] # <<>> /\ rows[i][1] = TestToken THEN i
    ELSE FindTestFrom(rows, i + 1)

\* mutant: the index found is one too small, so the scan starts on the header row
FindTestSectionOneEarly(rows) ==
    IF FindTestFrom(rows, 1) = 0 THEN 0 ELSE FindTestFrom(rows, 1) - 1

FindTestSection(rows) == FindTestFrom(rows, 1)

\* the running totals of one parse
ZeroTotals == [assigned |-> 0, completed |-> 0, rate_sum |-> 0, rate_count |-> 0]

\* int(s) if s.strip() else 0, for a text int() accepts or a blank one
CountValue(s) == IF Strip(s) = "" THEN 0 ELSE IntTable[s]

\* mutant: int(s) is called on every text, a blank one included
CountFailsOnBlank(s) == ~CanInt(s)

\* int(s) raises ValueError
CountFails(s) == Strip(s) # "" /\ ~CanInt(s)

\* mutant: the completed count of the row is not looked at
AddRateIgnoresCompleted(t, class_completed, rate_str) ==
    IF Strip(rate_str) # "" /\ CanFloat(rate_str)
    THEN [t EXCEPT !.rate_sum = FAdd(@, FloatTable[rate_str]),
                   !.rate_count = @ + 1]
    ELSE t

\* lines 71-79: the rate sample of a row, added when completed > 0 and the
\* text is non-blank and numeric
AddRate(t, class_completed, rate_str) ==
    IF class_completed > 0 /\ Strip(rate_str) # "" /\ CanFloat(rate_str)
    THEN [t EXCEPT !.rate_sum = FAdd(@, FloatTable[rate_str]),
                   !.rate_count = @ + 1]
    ELSE t

\* mutant: each count is added as soon as it is converted, so a row whose
\* completed cell fails has its assigned count added already
AccumulateRowPartial(t, row) ==
    LET class_assigned_str == Cell(row, math_tasks_assigned_col)
        class_completed_str == Cell(row, math_tasks_completed_col)
        class_correct_rate_str == Cell(row, math_correct_rate_col)
    IN  IF CountFails(class_assigned_str) THEN t
        ELSE LET t0 == [t EXCEPT !.assigned = @ + CountValue(class_assigned_str)]
             IN  IF CountFails(class_completed_str) THEN t0
                 ELSE AddRate([t0 EXCEPT !.completed = @ + CountValue(class_completed_str)],
                              CountValue(class_completed_str), class_correct_rate_str)

\* mutant: the assigned total is overwritten (=) instead of added to (+=)
AccumulateRowOverwrites(t, row) ==
    LET class_assigned_str == Cell(row, math_tasks_assigned_col)
        class_completed_str == Cell(row, math_tasks_completed_col)
        class_correct_rate_str == Cell(row, math_correct_rate_col)
    IN  IF CountFails(class_assigned_str) \/ CountFails(class_completed_str)
        THEN t
        ELSE AddRate([t EXCEPT !.assigned = CountValue(class_assigned_str),
                               !.completed = @ + CountValue(class_completed_str)],
                     CountValue(class_completed_str), class_correct_rate_str)

\* mutant: the rate is sampled before the counts are converted, so a row
\* whose assigned cell fails has its rate sampled already
AccumulateRowRateFirst(t, row) ==
    LET class_assigned_str == Cell(row, math_tasks_assigned_col)
        class_completed_str == Cell(row, math_tasks_completed_col)
        class_correct_rate_str == Cell(row, math_correct_rate_col)
    IN  IF CountFails(class_completed_str) THEN t
        ELSE LET t0 == AddRate(t, CountValue(class_completed_str), class_correct_rate_str)
             IN  IF CountFails(class_assigned_str) THEN t0
                 ELSE [t0 EXCEPT !.assigned = @ + CountValue(class_assigned_str),
                                 !.completed = @ + CountValue(class_completed_str)]

\* lines 60-85: the try block on a row that has enough columns
AccumulateRow(t, row) ==
    LET class_assigned_str == Cell(row, math_tasks_assigned_col)
        class_completed_str == Cell(row, math_tasks_completed_col)
        class_correct_rate_str == Cell(row, math_correct_rate_col)
    IN  IF CountFails(class_assigned_str) \/ CountFails(class_completed_str)
        THEN t          \* ValueError before any total is touched: continue
        ELSE LET class_assigned == CountValue(class_assigned_str)
                 class_completed == CountValue(class_completed_str)
                 t1 == [t EXCEPT !.assigned = @ + class_assigned,
                                 !.completed = @ + class_completed]
             IN  AddRate(t1, class_completed, class_correct_rate_str)

\* mutant: a row with too few columns ends the scan
RowControlShortRowEnds(row) ==
    IF NoClassName(row)
    THEN IF AllBlank(row) THEN "break" ELSE "continue"
    ELSE IF Len(row) <= Max3(math_tasks_assigned_col, math_tasks_completed_col,
                             math_correct_rate_col)
         THEN "break"
         ELSE "data"

\* what the loop body (lines 47-85) does with a row: "break", "continue"
\* (row skipped before the try block) or "data" (the try block ran)
RowControl(row) ==
    IF NoClassName(row)
    THEN IF AllBlank(row) THEN "break" ELSE "continue"
    ELSE IF Len(row) <= Max3(math_tasks_assigned_col, math_tasks_completed_col,
                             math_correct_rate_col)
         THEN "continue"
         ELSE "data"

\* the totals after the loop body ran on a row
ScanRow(t, row) == IF RowControl(row) = "data" THEN AccumulateRow(t, row) ELSE t

\* mutant: "N/A" instead of 0.0 when nothing was assigned
CompletionRateANotApplicable(t) ==
    IF t.assigned > 0 THEN Pct(RoundDiv(10000 * t.completed, t.assigned)) ELSE NA

\* lines 88-98: the formatted rates
CompletionRateA(t) ==
    IF t.assigned > 0 THEN Pct(RoundDiv(10000 * t.completed, t.assigned)) ELSE Pct(0)

AverageRateA(t) ==
    IF t.rate_count > 0 THEN Pct(RoundDiv(100 * t.rate_sum, t.rate_count)) ELSE NA

Summary(school, t) ==
    [school |-> school, assigned |-> t.assigned, completed |-> t.completed,
     completion_rate |-> CompletionRateA(t), correct_rate |-> AverageRateA(t),
     note |-> ""]

\* the tuple returned at lines 22 and 32
EmptySummary(school) ==
    [school |-> school, assigned |-> 0, completed |-> 0,
     completion_rate |-> NA, correct_rate |-> NA, note |-> ""]

\* mutant: a missing file is reported like a scanned file without rows
NotFoundSummaryAsScanned(school) ==
    [school |-> school, assigned |-> 0, completed |-> 0,
     completion_rate |-> Pct(0), correct_rate |-> NA, note |-> ""]

\* the tuple main() appends at line 145
NotFoundSummary(school) ==
    [school |-> school, assigned |-> 0, completed |-> 0,
     completion_rate |-> NA, correct_rate |-> NA, note |-> "file not found"]

\* extract_school_name_from_filepath: a path is its position in the list,
\* and the school name is read off the path
extract_school_name_from_filepath(filepath) == filepath

Totals == [assigned |-> total_math_assigned, completed |-> total_math_completed,
           rate_sum |-> sum_of_valid_correct_rates,
           rate_count |-> count_of_valid_correct_rates]

(***************************************************************************)
(* a.py: the input files.  A file is what os.path.exists says of its path  *)
(* (exists), whether open() finds it (opens), whether its bytes are valid  *)
(* UTF-8 (decodes) and the rows csv.reader yields (all_rows).              *)
(***************************************************************************)
BlankCells(n) == [j \in 1..n |-> ""]

\* a 13-column row: class name, assigned, completed and rate cells, the other
\* subjects' cells empty
MkRow(first, a, c, r) ==
    [j \in 1..13 |-> IF j = 1 THEN first
                     ELSE IF j = math_tasks_assigned_col + 1 THEN a
                     ELSE IF j = math_tasks_completed_col + 1 THEN c
                     ELSE IF j = math_correct_rate_col + 1 THEN r
                     ELSE ""]

TestRow == <<TestToken>>

HeaderRow == MkRow(ClassToken, "assigned", "completed", "rate")

GoodRow == MkRow("301", "3", "2", "0.8")

DataRows == {MkRow("301", a, c, r) : a \in {" ", "3", "abc"},
                                     c \in {"", "0", "2", "5", "abc"},
                                     r \in {"", "abc", "0.8"}}

OtherRows == { <<>>,                          \* an empty line
               BlankCells(13),                \* ",,,,,,,,,,,,"
               MkRow(" ", "", "", ""),        \* only whitespace in the first cell
               MkRow("", "3", "2", "0.8"),    \* no class name, other cells filled
               HeaderRow,                     \* a repeated header line
               <<"301", "3", "2">> }          \* too few columns

BodyRows == DataRows \cup OtherRows

Bodies == UNION {[1..n -> BodyRows] : n \in 0..MaxRowsA}

AFile(exists, opens, decodes, rows) ==
    [exists |-> exists, opens |-> opens, decodes |-> decodes, all_rows |-> rows]

\* files with a measurement block right at the top
BlockFiles == {AFile(TRUE, TRUE, TRUE, <<TestRow, HeaderRow>> \o b) : b \in Bodies}

MissingFile == AFile(FALSE, FALSE, TRUE, <<>>)

VanishedFile == AFile(TRUE, FALSE, TRUE, <<>>)      \* removed between exists() and open()

UndecodableFile == AFile(TRUE, TRUE, FALSE, <<>>)   \* e.g. a Big5 file

\* a block of two classes: (assigned 10, completed 8, rate 0.80) and (5, 5, 0.60)
TwoClassFile ==
    AFile(TRUE, TRUE, TRUE, <<TestRow, HeaderRow, MkRow("301", "10", "8", "0.80"),
                              MkRow("302", "5", "5", "0.60")>>)

SpecialFiles ==
    { MissingFile, VanishedFile, UndecodableFile, TwoClassFile,
      AFile(TRUE, TRUE, TRUE, <<>>),
      AFile(TRUE, TRUE, TRUE, <<GoodRow, HeaderRow, GoodRow>>),            \* no "測驗" row
      AFile(TRUE, TRUE, TRUE, <<GoodRow, TestRow>>),
      AFile(TRUE, TRUE, TRUE, <<GoodRow, TestRow, GoodRow, GoodRow>>),
      AFile(TRUE, TRUE, TRUE, <<GoodRow, <<>>, TestRow, HeaderRow, GoodRow, <<>>, GoodRow>>),
      AFile(TRUE, TRUE, TRUE, <<TestRow, HeaderRow, GoodRow, TestRow, GoodRow>>),
      AFile(TRUE, TRUE, TRUE, <<TestRow, HeaderRow, GoodRow>>) }

\* files_to_process: one file of any shape, or up to MaxFilesA special files
AInputs == {<<f>> : f \in BlockFiles} \cup
           UNION {[1..n -> SpecialFiles] : n \in 0..MaxFilesA}

AIdle ==
    /\ a_files = <<>> /\ a_fi = 0 /\ a_pc = "idle" /\ a_ri = 0
    /\ total_math_assigned = 0 /\ total_math_completed = 0
    /\ sum_of_valid_correct_rates = 0 /\ count_of_valid_correct_rates = 0
    /\ results = <<>> /\ a_log = <<>>

InitA ==
    /\ script = "a"
    /\ a_files \in AInputs
    /\ a_fi = 1 /\ a_pc = "main" /\ a_ri = 0
    /\ total_math_assigned = 0 /\ total_math_completed = 0
    /\ sum_of_valid_correct_rates = 0 /\ count_of_valid_correct_rates = 0
    /\ results = <<>> /\ a_log = <<>>

AtFile == script = "a" /\ a_pc = "main" /\ a_fi <= Len(a_files)

ATotalsUnchanged ==
    UNCHANGED <<total_math_assigned, total_math_completed,
                sum_of_valid_correct_rates, count_of_valid_correct_rates>>

\* main(), lines 141-146: the path does not exist
A_NotFound ==
    /\ AtFile
    /\ ~a_files[a_fi].exists
    /\ a_log' = Append(a_log, [msg |-> "path does not exist", file |-> a_fi])
    /\ results' = Append(results, NotFoundSummary(extract_school_name_from_filepath(a_fi)))
    /\ a_fi' = a_fi + 1
    /\ UNCHANGED <<NotA, a_files, a_pc, a_ri>>
    /\ ATotalsUnchanged

\* parse_csv_for_math_stats, lines 16-22: open() raises FileNotFoundError
A_OpenFails ==
    /\ AtFile
    /\ a_files[a_fi].exists /\ ~a_files[a_fi].opens
    /\ a_log' = Append(a_log, [msg |-> "file not found", file |-> a_fi])
    /\ results' = Append(results, EmptySummary(extract_school_name_from_filepath(a_fi)))
    /\ a_fi' = a_fi + 1
    /\ UNCHANGED <<NotA, a_files, a_pc, a_ri>>
    /\ ATotalsUnchanged

\* lines 17-19: list(reader) raises UnicodeDecodeError, which neither
\* parse_csv_for_math_stats nor main() catches: the run ends with a traceback
A_DecodeError ==
    /\ AtFile
    /\ a_files[a_fi].exists /\ a_files[a_fi].opens /\ ~a_files[a_fi].decodes
    /\ a_pc' = "aborted"
    /\ UNCHANGED <<NotA, a_files, a_fi, a_ri, results, a_log>>
    /\ ATotalsUnchanged

\* lines 24-32: no row starts with "測驗"
A_NoTestSection ==
    /\ AtFile
    /\ a_files[a_fi].exists /\ a_files[a_fi].opens /\ a_files[a_fi].decodes
    /\ FindTestSection(a_files[a_fi].all_rows) = 0
    /\ a_log' = Append(a_log, [msg |-> "no test section", file |-> a_fi])
    /\ results' = Append(results, EmptySummary(extract_school_name_from_filepath(a_fi)))
    /\ a_fi' = a_fi + 1
    /\ UNCHANGED <<NotA, a_files, a_pc, a_ri>>
    /\ ATotalsUnchanged

\* lines 24-46: the block is found, the totals are zeroed and the scan starts
\* two rows after the "測驗" row
A_StartScan ==
    /\ AtFile
    /\ a_files[a_fi].exists /\ a_files[a_fi].opens /\ a_files[a_fi].decodes
    /\ FindTestSection(a_files[a_fi].all_rows) # 0
    /\ a_ri' = FindTestSection(a_files[a_fi].all_rows) + 2
    /\ total_math_assigned' = 0 /\ total_math_completed' = 0
    /\ sum_of_valid_correct_rates' = 0 /\ count_of_valid_correct_rates' = 0
    /\ a_pc' = "scan"
    /\ UNCHANGED <<NotA, a_files, a_fi, results, a_log>>

\* lines 46-85: one iteration of the scan loop
A_ScanStep ==
    /\ script = "a" /\ a_pc = "scan"
    /\ a_ri <= Len(a_files[a_fi].all_rows)
    /\ LET row == a_files[a_fi].all_rows[a_ri]
           t == ScanRow(Totals, row)
       IN  /\ total_math_assigned' = t.assigned
           /\ total_math_completed' = t.completed
           /\ sum_of_valid_correct_rates' = t.rate_sum
           /\ count_of_valid_correct_rates' = t.rate_count
           /\ IF RowControl(row) = "break"
              THEN a_pc' = "summarize" /\ a_ri' = a_ri
              ELSE a_pc' = "scan" /\ a_ri' = a_ri + 1
    /\ UNCHANGED <<NotA, a_files, a_fi, results, a_log>>

\* lines 88-98 and 147: the loop is over (break, or no row left); the rates
\* are formatted and main() appends the tuple
A_Summarize ==
    /\ script = "a"
    /\ \/ a_pc = "summarize"
       \/ a_pc = "scan" /\ a_ri > Len(a_files[a_fi].all_rows)
    /\ results' = Append(results, Summary(extract_school_name_from_filepath(a_fi), Totals))
    /\ a_fi' = a_fi + 1
    /\ a_pc' = "main"
    /\ UNCHANGED <<NotA, a_files, a_ri, a_log>>
    /\ ATotalsUnchanged

\* lines 149-164: the table is printed
A_Report ==
    /\ script = "a" /\ a_pc = "main" /\ a_fi > Len(a_files)
    /\ a_log' = Append(a_log, [msg |-> "table", file |-> 0])
    /\ a_pc' = "done"
    /\ UNCHANGED <<NotA, a_files, a_fi, a_ri, results>>
    /\ ATotalsUnchanged

(***************************************************************************)
(* b.py: parse_csv_for_math_stats(filepaths), print_stats_table and main.  *)
(***************************************************************************)
encodings_to_try == <<"utf-8", "big5", "cp950", "big5hkscs", "utf-8-sig">>

\* the default record of the defaultdict (lines 18-23)
ZeroStat == [assigned_tasks |-> 0, completed_tasks |-> 0,
             total_correct_rate_sum |-> 0, correct_rate_count |-> 0]

\* mutant: the record is initialised on every access instead of the first
GetOrCreateResets(stats, key) == (key :> ZeroStat) @@ stats

\* school_stats[key] with the defaultdict's creation on first access
GetOrCreate(stats, key) ==
    IF key \in DOMAIN stats THEN stats ELSE stats @@ (key :> ZeroStat)

\* mutant: a row without a school name is kept as well
RECURSIVE TempDataKeepsEmptySchool(_)
TempDataKeepsEmptySchool(rows) ==
    IF rows = <<>> THEN <<>>
    ELSE LET row == Head(rows)
             rest == TempDataKeepsEmptySchool(Tail(rows))
         IN  IF Len(row) > 16
             THEN <<[school |-> Strip(Cell(row, 3)), rate_str |-> Strip(Cell(row, 16))]>>
                  \o rest
             ELSE rest

\* lines 51-68: the rows kept in temp_data_for_file, as (school, rate_str)
RECURSIVE TempData(_)
TempData(rows) ==
    IF rows = <<>> THEN <<>>
    ELSE LET row == Head(rows)
             rest == TempData(Tail(rows))
         IN  IF Len(row) > 16 /\ Strip(Cell(row, 3)) # ""
             THEN <<[school |-> Strip(Cell(row, 3)), rate_str |-> Strip(Cell(row, 16))]>>
                  \o rest
             ELSE rest

\* mutant: every item counts as completed, whatever its rate text
AddItemAlwaysCompleted(stats, item) ==
    LET s1 == GetOrCreate(stats, item.school)
        s2 == [s1 EXCEPT ![item.school].assigned_tasks = @ + 1,
                         ![item.school].completed_tasks = @ + 1]
    IN  IF CanFloat(item.rate_str)
        THEN [s2 EXCEPT ![item.school].total_correct_rate_sum =
                            FAdd(@, FloatTable[item.rate_str]),
                        ![item.school].correct_rate_count = @ + 1]
        ELSE s2

\* lines 72-86: one data_item added to the mapping
AddItem(stats, item) ==
    LET s1 == GetOrCreate(stats, item.school)
        s2 == [s1 EXCEPT ![item.school].assigned_tasks = @ + 1]
    IN  IF CanFloat(item.rate_str)
        THEN [s2 EXCEPT ![item.school].completed_tasks = @ + 1,
                        ![item.school].total_correct_rate_sum =
                            FAdd(@, FloatTable[item.rate_str]),
                        ![item.school].correct_rate_count = @ + 1]
        ELSE s2

\* lines 71-86: the loop over temp_data_for_file
RECURSIVE Aggregate(_, _)
Aggregate(stats, items) ==
    IF items = <<>> THEN stats
    ELSE Aggregate(AddItem(stats, Head(items)), Tail(items))

\* lines 32-103: how one attempt (one file under one encoding) ends.  The whole
\* file decodes under the encodings of file.valid; the text it decodes to does
\* not depend on the encoding.
AttemptOutcome(file, encoding) ==
    IF ~file.found THEN "not_found"                       \* FileNotFoundError at open()
    ELSE IF encoding \notin file.valid THEN "decode_error" \* UnicodeDecodeError
    ELSE IF file.header_lines < 2 THEN "too_few_header_lines"
    ELSE "ok"

\* mutant: the break after a successful read is missing
LeavesLoopNoBreak(outcome) == outcome \in {"not_found"}

\* lines 90-103: whether the encodings loop is left after an attempt
LeavesLoop(outcome) == outcome \in {"ok", "not_found"}

\* the rows an attempt has put in temp_data_for_file when it ends
RowsRead(file, encoding) ==
    IF AttemptOutcome(file, encoding) = "ok" THEN file.rows
    ELSE IF AttemptOutcome(file, encoding) = "decode_error"
         THEN SubSeq(file.rows, 1, file.rows_before_error)
    ELSE <<>>

\* mutant: the rows are added to the mapping as they are read, not after
\* the whole file was read
AttemptEffectEager(stats, file, encoding) ==
    Aggregate(stats, TempData(RowsRead(file, encoding)))

\* mutant: when the decoding fails, the rows read so far are aggregated
AttemptEffectFlushesOnError(stats, file, encoding) ==
    IF AttemptOutcome(file, encoding) \in {"ok", "decode_error"}
    THEN Aggregate(stats, TempData(RowsRead(file, encoding)))
    ELSE stats

\* lines 48-86: the mapping after one attempt; temp_data_for_file reaches the
\* mapping only when the whole file was read
AttemptEffect(stats, file, encoding) ==
    IF AttemptOutcome(file, encoding) = "ok"
    THEN Aggregate(stats, TempData(RowsRead(file, encoding)))
    ELSE stats

\* lines 31-103 for one file, from encoding number i on
RECURSIVE TryEncodingsFrom(_, _, _)
TryEncodingsFrom(stats, file, i) ==
    IF i > Len(encodings_to_try) THEN stats
    ELSE LET after == AttemptEffect(stats, file, encodings_to_try[i])
         IN  IF LeavesLoop(AttemptOutcome(file, encodings_to_try[i])) THEN after
             ELSE TryEncodingsFrom(after, file, i + 1)

\* lines 27-108: the mapping returned for a list of files
RECURSIVE ParseFrom(_, _)
ParseFrom(stats, files) ==
    IF files = <<>> THEN stats
    ELSE ParseFrom(TryEncodingsFrom(stats, Head(files), 1), Tail(files))

parse_csv_for_math_stats(filepaths) == ParseFrom([k \in {} |-> ZeroStat], filepaths)

(***************************************************************************)
(* b.py: the input files.  A file is whether open() finds it (found), the  *)
(* encodings under which all of its bytes decode (valid), how many of the  *)
(* two header lines it has (header_lines), its data rows as csv.reader     *)
(* yields them (rows) and, for an encoding that fails, how many data rows  *)
(* are read before the undecodable byte is met (rows_before_error).        *)
(***************************************************************************)
\* a 17-column row: school name in column 3, rate in column 16
MkRowB(school, rate) ==
    [j \in 1..17 |-> IF j = 4 THEN school ELSE IF j = 17 THEN rate ELSE "x"]

ShortRowB == [j \in 1..16 |-> IF j = 4 THEN "A" ELSE "x"]

Utf8Valid == {"utf-8", "utf-8-sig"}                   \* UTF-8 text, non-ASCII
AsciiValid == {"utf-8", "big5", "cp950", "big5hkscs", "utf-8-sig"}
Big5Valid == {"big5", "cp950", "big5hkscs"}
Cp950Valid == {"cp950"}
HkscsValid == {"big5hkscs"}
NoneValid == {}

ValidSets == {Utf8Valid, AsciiValid, Big5Valid, Cp950Valid, HkscsValid, NoneValid}

BRows == {MkRowB(s, r) : s \in {"A", "B"}, r \in {"", "abc", "0.01", "2.56"}}
         \cup {MkRowB("", "0.01"), MkRowB(" ", "0.01"), MkRowB(" A ", "0.8"), ShortRowB}

BBodies == UNION {[1..n -> BRows] : n \in 0..MaxRowsB}

BFile(found, valid, header_lines, rows, k) ==
    [found |-> found, valid |-> valid, header_lines |-> header_lines,
     rows |-> rows, rows_before_error |-> k]

RichBFiles ==
    {BFile(TRUE, v, 2, b, k) : v \in ValidSets, b \in BBodies, k \in {0, MaxRowsB}}

MissingBFile == BFile(FALSE, NoneValid, 0, <<>>, 0)

SpecialBFiles ==
    { MissingBFile,
      BFile(TRUE, Utf8Valid, 1, <<>>, 0),             \* a single line
      BFile(TRUE, Big5Valid, 0, <<>>, 0),             \* an empty file
      BFile(TRUE, NoneValid, 2, <<MkRowB("A", "0.01")>>, 1),
      BFile(TRUE, AsciiValid, 2, <<>>, 0),            \* headers only
      BFile(TRUE, Utf8Valid, 2, <<MkRowB("A", "0.01"), MkRowB("A", "0.01")>>, 0),
      BFile(TRUE, Big5Valid, 2, <<MkRowB("A", "2.56")>>, 1),
      BFile(TRUE, Utf8Valid, 2, <<MkRowB("B", "0.01"), MkRowB("A", "abc")>>, 0) }

\* csv_files: one file of any shape, or up to MaxFilesB special files
BInputs == {<<f>> : f \in {g \in RichBFiles : g.rows_before_error <= Len(g.rows)}} \cup
           UNION {[1..n -> SpecialBFiles] : n \in 0..MaxFilesB}

NoStats == [k \in {} |-> ZeroStat]

BIdle ==
    /\ b_cwd = "listable"
    /\ b_files = <<>> /\ b_fi = 0 /\ b_ei = 0 /\ b_pc = "idle"
    /\ file_processed = FALSE /\ school_stats = NoStats
    /\ b_attempts = <<>> /\ b_log = <<>> /\ b_table = NoStats

\* the working directory when the two globs of main() find nothing: it can be
\* listed (and so can final/, if there is one), final/ exists but cannot be
\* listed, the directory itself cannot be listed, or it was removed
EmptyDirectories == {"listable", "final_unlistable", "unlistable", "removed"}

InitB ==
    /\ script = "b"
    /\ b_files \in BInputs
    /\ b_cwd \in IF b_files = <<>> THEN EmptyDirectories ELSE {"listable"}
    /\ b_fi = 0 /\ b_ei = 0 /\ b_pc = "main"
    /\ file_processed = FALSE /\ school_stats = NoStats
    /\ b_attempts = <<>> /\ b_log = <<>> /\ b_table = NoStats

BLog(msg, file, encoding) == [msg |-> msg, file |-> file, encoding |-> encoding]

\* main(), lines 162-186: glob finds no CSV file; the directory listings are
\* printed and the run ends there
B_NoCsvFiles ==
    /\ script = "b" /\ b_pc = "main"
    /\ b_files = <<>>
    /\ b_cwd = "listable"
    /\ b_log' = Append(b_log, BLog("no csv files found", 0, ""))
    /\ b_pc' = "done"
    /\ UNCHANGED <<NotB, b_cwd, b_table, b_files, b_fi, b_ei, file_processed, school_stats, b_attempts>>

\* main(), lines 162-183: glob finds no CSV file and a call of the diagnostic
\* part raises what nothing catches: os.getcwd() (line 174, outside the try)
\* raises FileNotFoundError in a removed directory, os.listdir raises
\* PermissionError at line 177 (the except names FileNotFoundError only) or at
\* line 183; the run ends with a traceback
B_NoCsvFilesCrash ==
    /\ script = "b" /\ b_pc = "main"
    /\ b_files = <<>>
    /\ b_cwd # "listable"
    /\ b_log' = Append(b_log, BLog("no csv files found", 0, ""))
    /\ b_pc' = "aborted"
    /\ UNCHANGED <<NotB, b_cwd, b_table, b_files, b_fi, b_ei, file_processed, school_stats, b_attempts>>

\* main(), lines 188-190 and parse_csv_for_math_stats, lines 18-25
B_FoundFiles ==
    /\ script = "b" /\ b_pc = "main"
    /\ b_files # <<>>
    /\ b_log' = Append(b_log, BLog("found files", 0, ""))
    /\ school_stats' = NoStats
    /\ b_fi' = 1
    /\ b_pc' = "file"
    /\ UNCHANGED <<NotB, b_cwd, b_table, b_files, b_ei, file_processed, b_attempts>>

\* lines 27-30: the next file of the outer loop
B_StartFile ==
    /\ script = "b" /\ b_pc = "file"
    /\ b_fi <= Len(b_files)
    /\ b_log' = Append(b_log, BLog("processing file", b_fi, ""))
    /\ file_processed' = FALSE
    /\ b_ei' = 1
    /\ b_pc' = "enc"
    /\ UNCHANGED <<NotB, b_cwd, b_table, b_files, b_fi, school_stats, b_attempts>>

InAttempt(outcome) ==
    /\ script = "b" /\ b_pc = "enc"
    /\ b_ei <= Len(encodings_to_try)
    /\ AttemptOutcome(b_files[b_fi], encodings_to_try[b_ei]) = outcome
    /\ b_attempts' = Append(b_attempts, [file |-> b_fi, encoding |-> encodings_to_try[b_ei],
                                         outcome |-> outcome])
    /\ school_stats' = AttemptEffect(school_stats, b_files[b_fi], encodings_to_try[b_ei])
    /\ IF LeavesLoop(outcome)
       THEN b_pc' = "endfile" /\ b_ei' = b_ei
       ELSE b_pc' = "enc" /\ b_ei' = b_ei + 1

\* the warnings of line 64, one per row with 16 columns or fewer
RECURSIVE ShortRowWarnings(_, _, _)
ShortRowWarnings(rows, file, encoding) ==
    IF rows = <<>> THEN <<>>
    ELSE (IF Len(Head(rows)) > 16 THEN <<>>
          ELSE <<BLog("row with insufficient columns", file, encoding)>>)
         \o ShortRowWarnings(Tail(rows), file, encoding)

\* lines 32-90: the whole file is read under this encoding; its rows are
\* aggregated and the encodings loop is left
B_AttemptOk ==
    /\ InAttempt("ok")
    /\ file_processed' = TRUE
    /\ b_log' = b_log
                \o ShortRowWarnings(RowsRead(b_files[b_fi], encodings_to_try[b_ei]),
                                    b_fi, encodings_to_try[b_ei])
                \o <<BLog("successfully processed", b_fi, encodings_to_try[b_ei])>>
    /\ UNCHANGED <<NotB, b_cwd, b_table, b_files, b_fi>>

\* lines 91-93: UnicodeDecodeError, in the headers or after some rows were
\* read; temp_data_for_file is dropped and the next encoding is tried
B_AttemptDecodeError ==
    /\ InAttempt("decode_error")
    /\ b_log' = b_log
                \o ShortRowWarnings(RowsRead(b_files[b_fi], encodings_to_try[b_ei]),
                                    b_fi, encodings_to_try[b_ei])
    /\ UNCHANGED <<NotB, b_cwd, b_table, b_files, b_fi, file_processed>>

\* lines 94-96: FileNotFoundError; the encodings loop is left
B_AttemptNotFound ==
    /\ InAttempt("not_found")
    /\ b_log' = Append(b_log, BLog("file not found", b_fi, ""))
    /\ UNCHANGED <<NotB, b_cwd, b_table, b_files, b_fi, file_processed>>

\* lines 36-44 and 97-103: fewer than two header lines; the exception raised
\* at line 44 is reported at line 98 and the next encoding is tried
B_AttemptTooFewLines ==
    /\ InAttempt("too_few_header_lines")
    /\ b_log' = b_log \o <<BLog("less than 2 header lines", b_fi, encodings_to_try[b_ei]),
                           BLog("unexpected error", b_fi, encodings_to_try[b_ei])>>
    /\ UNCHANGED <<NotB, b_cwd, b_table, b_files, b_fi, file_processed>>

\* lines 105-106: after the encodings loop
B_EndFile ==
    /\ script = "b"
    /\ \/ b_pc = "endfile"
       \/ b_pc = "enc" /\ b_ei > Len(encodings_to_try)
    /\ b_log' = IF file_processed THEN b_log
                ELSE Append(b_log, BLog("will be skipped", b_fi, ""))
    /\ b_fi' = b_fi + 1
    /\ b_pc' = "file"
    /\ UNCHANGED <<NotB, b_cwd, b_table, b_files, b_ei, file_processed, school_stats, b_attempts>>

\* lines 125-146: the table row of one school
CompletionRateB(stats) ==
    IF stats.assigned_tasks > 0
    THEN Pct(RoundDiv(10000 * stats.completed_tasks, stats.assigned_tasks))
    ELSE Pct(0)

\* mutant: 0.00% instead of "N/A" when there is no sample
AverageRateBZero(stats) ==
    IF stats.correct_rate_count > 0
    THEN Pct(RoundDiv(100 * stats.total_correct_rate_sum, stats.correct_rate_count))
    ELSE Pct(0)

AverageRateB(stats) ==
    IF stats.correct_rate_count > 0
    THEN Pct(RoundDiv(100 * stats.total_correct_rate_sum, stats.correct_rate_count))
    ELSE NA

\* print_stats_table: reads the mapping, one row per key
print_stats_table(stats) ==
    [k \in DOMAIN stats |->
        [assigned |-> stats[k].assigned_tasks, completed |-> stats[k].completed_tasks,
         completion_rate |-> CompletionRateB(stats[k]),
         correct_rate |-> AverageRateB(stats[k])]]

\* lines 108 and 190-193: the mapping is returned and, not being empty, printed
B_PrintTable ==
    /\ script = "b" /\ b_pc = "file"
    /\ b_fi > Len(b_files)
    /\ DOMAIN school_stats # {}
    /\ b_log' = Append(b_log, BLog("table", 0, ""))
    /\ b_table' = print_stats_table(school_stats)
    /\ b_pc' = "done"
    /\ UNCHANGED <<NotB, b_cwd, b_files, b_fi, b_ei, file_processed, school_stats, b_attempts>>

\* lines 108 and 194-195: the mapping is empty
B_NoStatistics ==
    /\ script = "b" /\ b_pc = "file"
    /\ b_fi > Len(b_files)
    /\ DOMAIN school_stats = {}
    /\ b_log' = Append(b_log, BLog("no statistics were generated", 0, ""))
    /\ b_pc' = "done"
    /\ UNCHANGED <<NotB, b_cwd, b_table, b_files, b_fi, b_ei, file_processed, school_stats, b_attempts>>

(***************************************************************************)
(* c.py: read_score_file(file_path).  A file is whether it exists (found), *)
(* the encodings under which its bytes decode (valid) and whether pandas   *)
(* parses the decoded text (parses).                                       *)
(***************************************************************************)
encodings == <<"utf-8", "big5", "big5hkscs", "gb18030", "gbk", "cp950">>

CEncodingSet == {encodings[j] : j \in 1..Len(encodings)}

CFiles == [found : BOOLEAN, valid : SUBSET CEncodingSet, parses : BOOLEAN]

\* lines 385-415: how pd.read_csv under one encoding ends
ReadCsvOutcome(file, encoding) ==
    IF ~file.found THEN "error"                            \* FileNotFoundError
    ELSE IF encoding \notin file.valid THEN "decode_error"  \* UnicodeDecodeError
    ELSE IF ~file.parses THEN "error"                      \* ParserError, EmptyDataError
    ELSE "ok"

CIdle ==
    /\ c_file = [found |-> FALSE, valid |-> {}, parses |-> FALSE]
    /\ c_ei = 0 /\ c_pc = "idle" /\ c_result = "pending"
    /\ c_attempts = <<>> /\ c_log = <<>>

InitC ==
    /\ script = "c"
    /\ c_file \in CFiles
    /\ c_ei = 1 /\ c_pc = "loop" /\ c_result = "pending"
    /\ c_attempts = <<>> /\ c_log = <<>>

CInAttempt(outcome) ==
    /\ script = "c" /\ c_pc = "loop"
    /\ c_ei <= Len(encodings)
    /\ ReadCsvOutcome(c_file, encodings[c_ei]) = outcome
    /\ c_attempts' = Append(c_attempts, [encoding |-> encodings[c_ei], outcome |-> outcome])

\* lines 386-410: the frame is read and returned
C_AttemptOk ==
    /\ CInAttempt("ok")
    /\ c_log' = c_log \o <<[msg |-> "trying", encoding |-> encodings[c_ei]],
                           [msg |-> "read ok", encoding |-> encodings[c_ei]]>>
    /\ c_result' = "df"
    /\ c_pc' = "done"
    /\ UNCHANGED <<NotC, c_file, c_ei>>

\* lines 412-413: UnicodeDecodeError; the next encoding is tried
C_AttemptDecodeError ==
    /\ CInAttempt("decode_error")
    /\ c_log' = c_log \o <<[msg |-> "trying", encoding |-> encodings[c_ei]],
                           [msg |-> "cannot decode", encoding |-> encodings[c_ei]]>>
    /\ c_ei' = c_ei + 1
    /\ UNCHANGED <<NotC, c_file, c_pc, c_result>>

\* lines 414-415: any other exception; the next encoding is tried
C_AttemptError ==
    /\ CInAttempt("error")
    /\ c_log' = c_log \o <<[msg |-> "trying", encoding |-> encodings[c_ei]],
                           [msg |-> "error", encoding |-> encodings[c_ei]]>>
    /\ c_ei' = c_ei + 1
    /\ UNCHANGED <<NotC, c_file, c_pc, c_result>>

\* lines 417-422: every encoding failed; the exception raised at line 418 is
\* reported at line 421 and None is returned
C_GiveUp ==
    /\ script = "c" /\ c_pc = "loop"
    /\ c_ei > Len(encodings)
    /\ c_log' = Append(c_log, [msg |-> "cannot read file", encoding |-> ""])
    /\ c_result' = "None"
    /\ c_pc' = "done"
    /\ UNCHANGED <<NotC, c_file, c_ei, c_attempts>>

(***************************************************************************)
(* app.py: load_all_data(file_paths).  A file is whether its name carries  *)
(* a grade digit (grade_ok), whether read_data returns a frame (readable)  *)
(* and how many columns the frame has (columns).                           *)
(***************************************************************************)
AppFiles == { [grade_ok |-> g, readable |-> TRUE, columns |-> n] :
                  g \in BOOLEAN, n \in {3, 19} }
            \cup { [grade_ok |-> g, readable |-> FALSE, columns |-> 0] : g \in BOOLEAN }

AppInputs == UNION {[1..n -> AppFiles] : n \in 0..MaxFilesApp}

AppIdle ==
    /\ app_files = <<>> /\ app_fi = 0 /\ app_pc = "idle"
    /\ all_data = <<>> /\ app_log = <<>>

InitApp ==
    /\ script = "app"
    /\ app_files \in AppInputs
    /\ app_fi = 1 /\ app_pc = "loop"
    /\ all_data = <<>> /\ app_log = <<>>

AppAtFile == script = "app" /\ app_pc = "loop" /\ app_fi <= Len(app_files)

\* lines 49 and 73-74: extract_grade raises; the exception is printed
APP_GradeError ==
    /\ AppAtFile
    /\ ~app_files[app_fi].grade_ok
    /\ app_log' = Append(app_log, [msg |-> "error processing file", file |-> app_fi])
    /\ app_fi' = app_fi + 1
    /\ UNCHANGED <<NotApp, app_files, app_pc, all_data>>

\* lines 50-52 and 32-34: read_data prints the error and returns None
APP_Unreadable ==
    /\ AppAtFile
    /\ app_files[app_fi].grade_ok /\ ~app_files[app_fi].readable
    /\ app_log' = Append(app_log, [msg |-> "error reading file", file |-> app_fi])
    /\ app_fi' = app_fi + 1
    /\ UNCHANGED <<NotApp, app_files, app_pc, all_data>>

\* lines 55-61 and 73-74: df.columns[18] raises IndexError
APP_TooFewColumns ==
    /\ AppAtFile
    /\ app_files[app_fi].grade_ok /\ app_files[app_fi].readable
    /\ app_files[app_fi].columns <= 18
    /\ app_log' = Append(app_log, [msg |-> "error processing file", file |-> app_fi])
    /\ app_fi' = app_fi + 1
    /\ UNCHANGED <<NotApp, app_files, app_pc, all_data>>

\* lines 52-72: the frame is renamed, cleaned and appended
APP_Append ==
    /\ AppAtFile
    /\ app_files[app_fi].grade_ok /\ app_files[app_fi].readable
    /\ app_files[app_fi].columns > 18
    /\ all_data' = Append(all_data, app_fi)
    /\ app_fi' = app_fi + 1
    /\ UNCHANGED <<NotApp, app_files, app_pc, app_log>>

\* lines 76-81: the frames are concatenated (None when there is none)
APP_Return ==
    /\ script = "app" /\ app_pc = "loop"
    /\ app_fi > Len(app_files)
    /\ app_pc' = "done"
    /\ UNCHANGED <<NotApp, app_files, app_fi, all_data, app_log>>

Init ==
    \/ InitA /\ BIdle /\ CIdle /\ AppIdle
    \/ InitB /\ AIdle /\ CIdle /\ AppIdle
    \/ InitC /\ AIdle /\ BIdle /\ AppIdle
    \/ InitApp /\ AIdle /\ BIdle /\ CIdle

Next ==
    \/ A_NotFound \/ A_OpenFails \/ A_DecodeError \/ A_NoTestSection
    \/ A_StartScan \/ A_ScanStep \/ A_Summarize \/ A_Report
    \/ B_NoCsvFiles \/ B_NoCsvFilesCrash \/ B_FoundFiles \/ B_StartFile
    \/ B_AttemptOk \/ B_AttemptDecodeError \/ B_AttemptNotFound \/ B_AttemptTooFewLines
    \/ B_EndFile \/ B_PrintTable \/ B_NoStatistics
    \/ C_AttemptOk \/ C_AttemptDecodeError \/ C_AttemptError \/ C_GiveUp
    \/ APP_GradeError \/ APP_Unreadable \/ APP_TooFewColumns \/ APP_Append \/ APP_Return

Spec == Init /\ [][Next]_vars

(***************************************************************************)
(* Claims.                                                                 *)
(***************************************************************************)
Perms(n) == {p \in [1..n -> 1..n] : \A i, j \in 1..n : p[i] = p[j] => i = j}

\* the file with its data rows in every order
RowOrders(file) ==
    {[file EXCEPT !.rows = [i \in 1..Len(file.rows) |-> file.rows[p[i]]]] :
        p \in Perms(Len(file.rows))}

\* the file list in every order, the rows of each file in every order
Arrangements(files) ==
    LET n == Len(files)
        shuffled == UNION {RowOrders(files[i]) : i \in 1..n}
    IN  UNION { {g \in [1..n -> shuffled] : \A i \in 1..n : g[i] \in RowOrders(files[p[i]])} :
                p \in Perms(n) }

\* the integer totals of a mapping
Counts(stats) ==
    [k \in DOMAIN stats |-> <<stats[k].assigned_tasks, stats[k].completed_tasks,
                              stats[k].correct_rate_count>>]

\* the exact sum of the rates of a school over successfully processed files
RECURSIVE ExactItemSum(_, _)
ExactItemSum(items, school) ==
    IF items = <<>> THEN 0
    ELSE (IF Head(items).school = school /\ CanFloat(Head(items).rate_str)
          THEN FloatTable[Head(items).rate_str] ELSE 0)
         + ExactItemSum(Tail(items), school)

Processed(file) == \E j \in 1..Len(encodings_to_try) :
                      AttemptOutcome(file, encodings_to_try[j]) = "ok"

RECURSIVE ExactRateSum(_, _)
ExactRateSum(files, school) ==
    IF files = <<>> THEN 0
    ELSE (IF Processed(Head(files)) /\ Head(files).found
          THEN ExactItemSum(TempData(Head(files).rows), school) ELSE 0)
         + ExactRateSum(Tail(files), school)

BDone == script = "b" /\ b_pc = "done" /\ b_files # <<>>

\* C1 (as claimed): whatever the order of the files and of the rows inside
\* them, parse_csv_for_math_stats returns the same per-school totals
\* (assigned_tasks, completed_tasks, total_correct_rate_sum, correct_rate_count).
C1_OrderIndependentTotals ==
    BDone => \A arr \in Arrangements(b_files) :
                 parse_csv_for_math_stats(arr) = school_stats

\* C1 (amended): in every order of the files and of their rows the keys and
\* the integer totals (assigned_tasks, completed_tasks, correct_rate_count)
\* are the same, and total_correct_rate_sum is the same for every school
\* whose exact rate sum needs no rounding.
C1_OrderIndependentCounts ==
    BDone => \A arr \in Arrangements(b_files) :
                 LET other == parse_csv_for_math_stats(arr)
                 IN  /\ Counts(other) = Counts(school_stats)
                     /\ \A k \in DOMAIN school_stats :
                            ExactRateSum(b_files, k) < Pow2(MantissaBits)
                            => other[k].total_correct_rate_sum
                               = school_stats[k].total_correct_rate_sum

\* C1 witness: a finished run over two files with three rows of one school,
\* two of them with a numeric rate
C1_Witness ==
    /\ BDone
    /\ Len(b_files) = 2
    /\ "A" \in DOMAIN school_stats
    /\ school_stats["A"].assigned_tasks = 3
    /\ school_stats["A"].correct_rate_count = 2
    /\ "B" \in DOMAIN school_stats

\* the least element of a set of positive integers, 0 when it is empty
FirstIn(S) == IF S = {} THEN 0 ELSE CHOOSE j \in S : \A k \in S : j <= k

\* b.py: the attempts made on file number i, in the order they were made
AttemptsOf(i) == SelectSeq(b_attempts, LAMBDA a : a.file = i)

\* b.py: the encodings loop of file number i is over
LoopOver(i) ==
    \/ i < b_fi
    \/ i = b_fi /\ (b_pc = "endfile" \/ (b_pc = "enc" /\ b_ei > Len(encodings_to_try)))

\* the first encoding of the list under which the whole file decodes
FirstDecodableB(file) == FirstIn({j \in 1..Len(encodings_to_try) : encodings_to_try[j] \in file.valid})

FirstDecodableC(file) == FirstIn({j \in 1..Len(encodings) : encodings[j] \in file.valid})

\* the first encoding of the list whose attempt raises nothing
FirstOkB(file) == FirstIn({j \in 1..Len(encodings_to_try) :
                             AttemptOutcome(file, encodings_to_try[j]) = "ok"})

FirstOkC(file) == FirstIn({j \in 1..Len(encodings) : ReadCsvOutcome(file, encodings[j]) = "ok"})

\* the attempts follow the list from its first encoding, and none follows a success
InListOrder(att, encs) ==
    /\ Len(att) <= Len(encs)
    /\ \A j \in 1..Len(att) :
          /\ att[j].encoding = encs[j]
          /\ j < Len(att) => att[j].outcome # "ok"

\* the attempts stopped at encoding number j, which succeeded
ReadUnder(att, j) == Len(att) = j /\ att[j].outcome = "ok"

\* C2 (as claimed): the encodings are tried in list order and a file is read
\* under the first encoding under which the whole file decodes without a
\* decode error; no later encoding is attempted after it (b.py and c.py).
C2_FirstDecodableWins ==
    /\ script = "b" =>
          \A i \in 1..Len(b_files) :
              /\ InListOrder(AttemptsOf(i), encodings_to_try)
              /\ (LoopOver(i) /\ b_files[i].found /\ FirstDecodableB(b_files[i]) # 0)
                 => ReadUnder(AttemptsOf(i), FirstDecodableB(b_files[i]))
    /\ script = "c" =>
          /\ InListOrder(c_attempts, encodings)
          /\ (c_pc = "done" /\ c_file.found /\ FirstDecodableC(c_file) # 0)
             => ReadUnder(c_attempts, FirstDecodableC(c_file)) /\ c_result = "df"

\* C2 (amended): the encodings are tried in list order; a file is read under
\* the first encoding whose attempt raises no exception at all (it decodes,
\* and in b.py has its two header lines, in c.py is parsed by pandas), and no
\* later encoding is attempted; an attempt that fails for another reason than
\* a missing file in b.py is followed by the next encoding, and when no
\* attempt succeeds every encoding has been tried (b.py: one attempt when the
\* file is missing) and the file is not read.
C2_FirstSuccessWins ==
    /\ script = "b" =>
          \A i \in 1..Len(b_files) :
              /\ InListOrder(AttemptsOf(i), encodings_to_try)
              /\ (LoopOver(i) /\ FirstOkB(b_files[i]) # 0)
                 => ReadUnder(AttemptsOf(i), FirstOkB(b_files[i]))
              /\ (LoopOver(i) /\ FirstOkB(b_files[i]) = 0)
                 => /\ Len(AttemptsOf(i)) =
                          IF b_files[i].found THEN Len(encodings_to_try) ELSE 1
                    /\ \A j \in 1..Len(AttemptsOf(i)) : AttemptsOf(i)[j].outcome # "ok"
              /\ (i = b_fi /\ b_pc = "endfile")
                 => file_processed = (FirstOkB(b_files[i]) # 0)
    /\ script = "c" =>
          /\ InListOrder(c_attempts, encodings)
          /\ (c_pc = "done" /\ FirstOkC(c_file) # 0)
             => ReadUnder(c_attempts, FirstOkC(c_file)) /\ c_result = "df"
          /\ (c_pc = "done" /\ FirstOkC(c_file) = 0)
             => Len(c_attempts) = Len(encodings) /\ c_result = "None"

\* C2 witness: a b.py file read under "big5", the second encoding, after
\* "utf-8" failed to decode it, with "cp950" (valid as well) never attempted
C2_Witness ==
    /\ script = "b" /\ b_pc = "endfile" /\ file_processed
    /\ "cp950" \in b_files[b_fi].valid
    /\ Len(AttemptsOf(b_fi)) = 2
    /\ AttemptsOf(b_fi)[1] = [file |-> b_fi, encoding |-> "utf-8", outcome |-> "decode_error"]
    /\ AttemptsOf(b_fi)[2] = [file |-> b_fi, encoding |-> "big5", outcome |-> "ok"]

\* b.py: the file decodes under none of the encodings tried
Undecodable(file) ==
    file.found /\ \A j \in 1..Len(encodings_to_try) : encodings_to_try[j] \notin file.valid

\* b.py: how many times a message was printed for file number i
Events(msg, i) == Len(SelectSeq(b_log, LAMBDA e : e.msg = msg /\ e.file = i))

\* C3: in b.py a file that decodes under none of the encodings leaves the
\* mapping as it was (no key created, no counter changed) at every step taken
\* on it, is never reported as processed, and once its encodings loop is left
\* exactly one "will be skipped" message has been printed for it.
C3_UndecodableFileSkipped ==
    /\ [](script = "b" =>
            \A i \in 1..Len(b_files) :
                Undecodable(b_files[i]) =>
                    /\ Events("successfully processed", i) = 0
                    /\ Events("will be skipped", i) = IF i < b_fi THEN 1 ELSE 0)
    /\ [][(script = "b" /\ b_fi \in 1..Len(b_files) /\ Undecodable(b_files[b_fi]))
              => school_stats' = school_stats]_vars

\* C3 witness: the second file, with a data row, decoded under no encoding
\* after the first file had filled the mapping; one skip message, mapping
\* still that of the first file
C3_Witness ==
    /\ script = "b" /\ b_pc = "file" /\ b_fi = 3
    /\ Undecodable(b_files[2]) /\ b_files[2].rows # <<>>
    /\ ~Undecodable(b_files[1])
    /\ Len(AttemptsOf(2)) = Len(encodings_to_try)
    /\ Events("will be skipped", 2) = 1
    /\ school_stats = parse_csv_for_math_stats(<<b_files[1]>>)
    /\ DOMAIN school_stats # {}

\* a.py: the file is read and has a measurement block, so its rows are scanned
AParsed(file) ==
    file.exists /\ file.opens /\ file.decodes /\ FindTestSection(file.all_rows) # 0

\* a.py: the first row the scan looks at
ScanStart(file) == FindTestSection(file.all_rows) + 2

\* a.py: the scan loop is about to run on a row
ScanningRow == script = "a" /\ a_pc = "scan" /\ a_ri <= Len(a_files[a_fi].all_rows)

CurRow == a_files[a_fi].all_rows[a_ri]

AssignedStr(row) == Cell(row, math_tasks_assigned_col)

CompletedStr(row) == Cell(row, math_tasks_completed_col)

RateStr(row) == Cell(row, math_correct_rate_col)

\* the file cannot be read (a.py), is not read under any encoding (b.py),
\* yields no frame (app.py)
AFails(file) == ~file.exists \/ ~file.opens \/ ~file.decodes

BFails(file) == FirstOkB(file) = 0

AppFails(file) == ~file.grade_ok \/ ~file.readable \/ file.columns <= 18

\* C4 (as claimed): in every script a file that cannot be read or processed
\* is logged, contributes nothing, and the run goes on with the remaining
\* files: it never aborts.
C4_PerFileIsolation ==
    /\ script = "a" =>
          /\ a_pc # "aborted"
          /\ \A i \in 1..Len(results) :
                AFails(a_files[i]) =>
                    /\ results[i].assigned = 0 /\ results[i].completed = 0
                    /\ \E n \in 1..Len(a_log) : a_log[n].file = i
    /\ script = "b" =>
          /\ \A i \in 1..Len(b_files) :
                (BFails(b_files[i]) /\ i < b_fi) => Events("will be skipped", i) = 1
          /\ b_pc = "done" =>
                school_stats = parse_csv_for_math_stats(
                                   SelectSeq(b_files, LAMBDA f : ~BFails(f)))
    /\ script = "app" =>
          \A i \in 1..Len(app_files) :
              (AppFails(app_files[i]) /\ i < app_fi) =>
                  /\ \A n \in 1..Len(all_data) : all_data[n] # i
                  /\ \E n \in 1..Len(app_log) : app_log[n].file = i

\* C5 (as claimed): in a.py a numeric field with non-blank, non-numeric text
\* is alone treated as absent; each count of the row that did parse is still
\* added to its total.
C5_OtherFieldsStillAdded ==
    [][(ScanningRow /\ RowControl(CurRow) = "data") =>
          /\ ~CountFails(AssignedStr(CurRow))
             => total_math_assigned' = total_math_assigned + CountValue(AssignedStr(CurRow))
          /\ ~CountFails(CompletedStr(CurRow))
             => total_math_completed' = total_math_completed + CountValue(CompletedStr(CurRow))
      ]_vars

\* C5 (amended): in a.py a rate with non-blank, non-numeric text is alone
\* treated as absent (the two counts of the row are still added, no sample is);
\* a count (assigned or completed) with non-blank, non-numeric text makes the
\* whole row be skipped: none of the four totals changes.
C5_BadCountSkipsRow ==
    [][(ScanningRow /\ RowControl(CurRow) = "data") =>
          /\ (CountFails(AssignedStr(CurRow)) \/ CountFails(CompletedStr(CurRow)))
             => UNCHANGED <<total_math_assigned, total_math_completed,
                            sum_of_valid_correct_rates, count_of_valid_correct_rates>>
          /\ (~CountFails(AssignedStr(CurRow)) /\ ~CountFails(CompletedStr(CurRow)))
             => /\ total_math_assigned' =
                      total_math_assigned + CountValue(AssignedStr(CurRow))
                /\ total_math_completed' =
                      total_math_completed + CountValue(CompletedStr(CurRow))
                /\ (Strip(RateStr(CurRow)) # "" /\ ~CanFloat(RateStr(CurRow)))
                   => UNCHANGED <<sum_of_valid_correct_rates, count_of_valid_correct_rates>>
      ]_vars

\* C5 witness: a block of two rows was scanned, one with assigned "abc"
\* (completed 2, rate 0.8), one with rate "abc" (assigned 3, completed 2):
\* only the counts of the second reached the totals
C5_Witness ==
    /\ script = "a" /\ a_pc = "scan" /\ a_ri = 5
    /\ a_files[a_fi].all_rows = <<TestRow, HeaderRow, MkRow("301", "abc", "2", "0.8"),
                                  MkRow("301", "3", "2", "abc")>>
    /\ Totals = [assigned |-> 3, completed |-> 2, rate_sum |-> 0, rate_count |-> 0]

\* the class the specification gives a row of the block
ClaimedClass(row) ==
    IF AllBlank(row) THEN "End"
    ELSE IF row[1] = "" \/ row[1] = ClassToken THEN "Skip"
    ELSE "Data"

\* the class the scan loop gives it
CodeClass(row) ==
    IF RowControl(row) = "break" THEN "End"
    ELSE IF RowControl(row) = "continue" /\ NoClassName(row) THEN "Skip"
    ELSE "Data"

\* C6 (as claimed): in a.py's block scan a row is End exactly when every cell
\* is empty or whitespace-only, a row that is not End and whose first cell is
\* empty or "班級" is skipped, and every other row is Data: the scan stops at
\* a row if and only if all its cells are blank.
C6_RowClassification ==
    script = "a" =>
        /\ a_pc = "scan" =>
              \A j \in ScanStart(a_files[a_fi])..(a_ri - 1) :
                  /\ ~AllBlank(a_files[a_fi].all_rows[j])
                  /\ CodeClass(a_files[a_fi].all_rows[j])
                     = ClaimedClass(a_files[a_fi].all_rows[j])
        /\ a_pc = "summarize" => AllBlank(a_files[a_fi].all_rows[a_ri])

\* the completion rate of a result, as the specification and as the code have it
ClaimedCompletionRate(assigned, completed) ==
    IF assigned > 0 THEN Pct(RoundDiv(10000 * completed, assigned)) ELSE NA

CodeCompletionRate(assigned, completed) ==
    IF assigned > 0 THEN Pct(RoundDiv(10000 * completed, assigned)) ELSE Pct(0)

\* C7 (as claimed): the reported completion rate is completed/assigned when
\* the assigned total is > 0 and "N/A" whenever it is 0.
C7_NotApplicableWhenZero ==
    /\ script = "a" =>
          \A i \in 1..Len(results) :
              results[i].completion_rate
              = ClaimedCompletionRate(results[i].assigned, results[i].completed)
    /\ script = "b" =>
          \A k \in DOMAIN b_table :
              b_table[k].completion_rate
              = ClaimedCompletionRate(b_table[k].assigned, b_table[k].completed)

\* C7 (amended): the reported completion rate is completed/assigned when the
\* assigned total is > 0 and 0.0, printed "0.00%", when it is 0; a.py reports
\* "N/A" only for a file that is missing or has no "測驗" block, and the rate
\* is never above the counts' ratio or "N/A" for a scanned file.
C7_ZeroWhenNothingAssigned ==
    /\ script = "a" =>
          \A i \in 1..Len(results) :
              results[i].completion_rate
              = IF AParsed(a_files[i])
                THEN CodeCompletionRate(results[i].assigned, results[i].completed)
                ELSE NA
    /\ script = "b" =>
          /\ \A k \in DOMAIN b_table :
                b_table[k].completion_rate
                = CodeCompletionRate(b_table[k].assigned, b_table[k].completed)
          /\ b_pc = "done" /\ DOMAIN school_stats # {} =>
                /\ DOMAIN b_table = DOMAIN school_stats
                /\ \A k \in DOMAIN b_table :
                      /\ b_table[k].assigned = school_stats[k].assigned_tasks
                      /\ b_table[k].completed = school_stats[k].completed_tasks

\* C7 witness: a.py scanned a block with a data row and no assigned task and
\* reported 0.00%
C7_Witness ==
    /\ script = "a" /\ Len(results) = 1
    /\ AParsed(a_files[1])
    /\ \E j \in ScanStart(a_files[1])..Len(a_files[1].all_rows) :
           RowControl(a_files[1].all_rows[j]) = "data"
    /\ results[1].assigned = 0
    /\ results[1].completion_rate = Pct(0)

\* C8: in a.py a row adds a rate sample (sum and count) exactly when it is an
\* accepted data row whose completed count is positive and whose rate text is
\* non-blank and numeric; a row with completed count 0 never adds one,
\* whatever its rate text.
C8_SampleNeedsCompleted ==
    [][ScanningRow =>
          LET row == CurRow
              sampled == /\ RowControl(row) = "data"
                         /\ ~CountFails(AssignedStr(row)) /\ ~CountFails(CompletedStr(row))
                         /\ CountValue(CompletedStr(row)) > 0
                         /\ Strip(RateStr(row)) # "" /\ CanFloat(RateStr(row))
          IN  /\ sampled =>
                    /\ count_of_valid_correct_rates' = count_of_valid_correct_rates + 1
                    /\ sum_of_valid_correct_rates' =
                          FAdd(sum_of_valid_correct_rates, FloatTable[RateStr(row)])
              /\ ~sampled =>
                    UNCHANGED <<sum_of_valid_correct_rates, count_of_valid_correct_rates>>
      ]_vars

\* C8 witness: a row with completed "0" and rate "0.8" was scanned without a
\* sample, then a row with completed "2" and rate "0.8" gave the only sample
C8_Witness ==
    /\ script = "a" /\ a_pc = "scan" /\ a_ri = 5
    /\ a_files[a_fi].all_rows = <<TestRow, HeaderRow, MkRow("301", "3", "0", "0.8"),
                                  MkRow("301", "3", "2", "0.8")>>
    /\ Totals = [assigned |-> 6, completed |-> 2, rate_sum |-> 80, rate_count |-> 1]

\* C9 (as claimed): every per-school record satisfies, after every update,
\* completed <= assigned and rate sample count <= completed (a.py totals and
\* b.py records).
C9_SchoolStatInvariant ==
    /\ script = "a" =>
          /\ total_math_completed <= total_math_assigned
          /\ count_of_valid_correct_rates <= total_math_completed
    /\ script = "b" =>
          \A k \in DOMAIN school_stats :
              /\ school_stats[k].completed_tasks <= school_stats[k].assigned_tasks
              /\ school_stats[k].correct_rate_count <= school_stats[k].completed_tasks

\* a row whose counts, when the scan adds them, are 0 <= completed <= assigned
ValidCounts(row) ==
    (RowControl(row) = "data" /\ ~CountFails(AssignedStr(row))
                              /\ ~CountFails(CompletedStr(row)))
    => /\ 0 <= CountValue(CompletedStr(row))
       /\ CountValue(CompletedStr(row)) <= CountValue(AssignedStr(row))

ValidBlock(file) ==
    \A j \in ScanStart(file)..Len(file.all_rows) : ValidCounts(file.all_rows[j])

\* C10: for a block of valid data rows (each row's counts are
\* 0 <= completed <= assigned) the completion rate a.py reports is between
\* 0% and 100% when the assigned total is > 0, and the running totals keep
\* 0 <= completed <= assigned throughout the scan.
C10_CompletionRateInUnitRange ==
    script = "a" =>
        /\ \A i \in 1..Len(results) :
              (AParsed(a_files[i]) /\ ValidBlock(a_files[i]) /\ results[i].assigned > 0)
              => /\ results[i].completion_rate.kind = "pct"
                 /\ results[i].completion_rate.bp \in 0..10000
        /\ (a_pc \in {"scan", "summarize"} /\ ValidBlock(a_files[a_fi]))
           => 0 <= total_math_completed /\ total_math_completed <= total_math_assigned

\* C10 witness: two valid rows (3, 2) and (3, 2) reported as 4/6 = 66.67%
C10_Witness ==
    /\ script = "a" /\ Len(results) = 1
    /\ AParsed(a_files[1]) /\ ValidBlock(a_files[1])
    /\ results[1].assigned = 6 /\ results[1].completed = 4
    /\ results[1].completion_rate = Pct(6667)

\* a.py: the path is missing, at os.path.exists or at open()
AMissing(file) == ~file.exists \/ ~file.opens

\* a.py: the entry recorded for a missing path has zero counts and "N/A" rates
PlaceholderEntry(r) ==
    /\ r.assigned = 0 /\ r.completed = 0
    /\ r.completion_rate = NA /\ r.correct_rate = NA

\* C11 (as claimed): when an input path does not exist the failure is
\* reported, an entry with zero counts and "N/A" rates is recorded for it, and
\* the run goes on with the remaining files (a.py and b.py).
C11_MissingFileEntry ==
    /\ script = "a" =>
          \A i \in 1..Len(results) :
              AMissing(a_files[i]) =>
                  /\ PlaceholderEntry(results[i])
                  /\ \E n \in 1..Len(a_log) : a_log[n].file = i
    /\ script = "b" =>
          \A i \in 1..Len(b_files) :
              (~b_files[i].found /\ i < b_fi) =>
                  /\ Events("file not found", i) = 1
                  /\ \E k \in DOMAIN school_stats :
                        /\ school_stats[k].assigned_tasks = 0
                        /\ school_stats[k].completed_tasks = 0

\* C11 (amended): in a.py a missing path is reported once, one entry with
\* zero counts and "N/A" rates is recorded at its place in the results, and the
\* next file is handled; in b.py a missing file is reported ("not found", then
\* "will be skipped") after a single attempt, no record is created or changed
\* for it, and the next file is handled.
C11_MissingFileReported ==
    /\ [](/\ script = "a" =>
                \A i \in 1..Len(results) :
                    AMissing(a_files[i]) =>
                        /\ PlaceholderEntry(results[i])
                        /\ results[i].school = extract_school_name_from_filepath(i)
                        /\ Len(SelectSeq(a_log, LAMBDA e : e.file = i)) = 1
          /\ script = "b" =>
                \A i \in 1..Len(b_files) :
                    (~b_files[i].found /\ i < b_fi) =>
                        /\ Events("file not found", i) = 1
                        /\ Events("will be skipped", i) = 1
                        /\ Len(AttemptsOf(i)) = 1)
    /\ [][/\ (AtFile /\ AMissing(a_files[a_fi])) =>
                /\ Len(results') = Len(results) + 1
                /\ a_fi' = a_fi + 1 /\ a_pc' = "main"
          /\ (script = "b" /\ b_fi \in 1..Len(b_files) /\ ~b_files[b_fi].found) =>
                /\ school_stats' = school_stats
                /\ b_pc = "endfile" => (b_fi' = b_fi + 1 /\ b_pc' = "file")
         ]_vars

\* C11 witness: a.py recorded the placeholder of a missing first file and then
\* the totals of the second file, which it scanned
C11_Witness ==
    /\ script = "a" /\ a_pc = "done" /\ Len(results) = 2
    /\ ~a_files[1].exists
    /\ results[1] = NotFoundSummary(extract_school_name_from_filepath(1))
    /\ AParsed(a_files[2]) /\ results[2].assigned = 3

\* a.py: a row with a class name and fewer than the 13 columns the scan needs
ShortDataRowA(row) == ~NoClassName(row) /\ Len(row) < math_correct_rate_col + 1

\* b.py: a row with fewer than the 17 columns the scan needs
ShortRowOfB(row) == Len(row) < 17

\* b.py: the files without their short rows
WithoutShortRows(files) ==
    [i \in 1..Len(files) |->
        [files[i] EXCEPT !.rows = SelectSeq(@, LAMBDA r : ~ShortRowOfB(r))]]

\* C12: a data row with fewer columns than the scan needs (13 in a.py, 17 in
\* b.py) is skipped entirely: in a.py the four running totals stay as they
\* are and the scan moves to the next row; in b.py the mapping after each
\* file, and at the end of the run, is the one the files without their short
\* rows give, so the row alters no counter and no key and the rows after it
\* still count.
C12_ShortRowSkipped ==
    /\ [](script = "b" /\ b_pc \in {"file", "done"} /\ b_fi >= 1 =>
             school_stats = parse_csv_for_math_stats(
                                WithoutShortRows(SubSeq(b_files, 1, b_fi - 1))))
    /\ [][(ScanningRow /\ ShortDataRowA(CurRow)) =>
             /\ UNCHANGED <<total_math_assigned, total_math_completed,
                            sum_of_valid_correct_rates, count_of_valid_correct_rates>>
             /\ a_pc' = "scan" /\ a_ri' = a_ri + 1]_vars

\* C12 witness: a.py scanned a 3-column row, which left the totals at zero,
\* and then a full row, whose counts and rate were added
C12_Witness ==
    /\ script = "a" /\ a_pc = "scan" /\ a_ri = 5
    /\ a_files[a_fi].all_rows = <<TestRow, HeaderRow, <<"301", "3", "2">>, GoodRow>>
    /\ Totals = [assigned |-> 3, completed |-> 2, rate_sum |-> 80, rate_count |-> 1]

\* C12 witness for b.py: a file with a 16-column row followed by a full row
\* of the same school was processed; the school has one assigned task
C12_WitnessB ==
    /\ script = "b" /\ b_pc = "done" /\ Len(b_files) = 1
    /\ b_files[1].rows = <<ShortRowB, MkRowB("A", "0.01")>>
    /\ "A" \in DOMAIN school_stats
    /\ school_stats["A"].assigned_tasks = 1

\* a count text that is blank (empty or whitespace-only)
BlankCount(s) == s = "" \/ IsSpace(s)

\* a count text that is blank or that int() accepts, and its value
CountParses(s) == BlankCount(s) \/ CanInt(s)

CountOf(s) == IF BlankCount(s) THEN 0 ELSE IntTable[s]

\* C13: in a.py a blank or whitespace-only count (assigned or completed) of a
\* data row counts as 0 and does not stop the row from being accumulated: when
\* the row's other count is blank or numeric, both totals grow by the counts'
\* values (0 for the blank one), and a numeric rate is sampled exactly when
\* the completed count is positive.
C13_BlankCountIsZero ==
    [][(/\ ScanningRow /\ RowControl(CurRow) = "data"
        /\ BlankCount(AssignedStr(CurRow)) \/ BlankCount(CompletedStr(CurRow))
        /\ CountParses(AssignedStr(CurRow)) /\ CountParses(CompletedStr(CurRow)))
       => /\ total_math_assigned' = total_math_assigned + CountOf(AssignedStr(CurRow))
          /\ total_math_completed' = total_math_completed + CountOf(CompletedStr(CurRow))
          /\ count_of_valid_correct_rates' =
                count_of_valid_correct_rates
                + (IF CountOf(CompletedStr(CurRow)) > 0 /\ CanFloat(RateStr(CurRow))
                   THEN 1 ELSE 0)
          /\ a_pc' = "scan" /\ a_ri' = a_ri + 1
      ]_vars

\* C13 witness: a row with a whitespace-only assigned count, completed 2 and
\* rate 0.8 was scanned: assigned stays 0, completed and the rate were added
C13_Witness ==
    /\ script = "a" /\ a_pc = "scan" /\ a_ri = 4
    /\ a_files[a_fi].all_rows = <<TestRow, HeaderRow, MkRow("301", " ", "2", "0.8")>>
    /\ Totals = [assigned |-> 0, completed |-> 2, rate_sum |-> 80, rate_count |-> 1]

\* the average the specification gives a rate sum (in hundredths) and a sample
\* count: the quotient as a percentage with two decimals, or "N/A"
ClaimedAverageRate(rate_sum, rate_count) ==
    IF rate_count > 0 THEN Pct(RoundDiv(100 * rate_sum, rate_count)) ELSE NA

\* C14: the reported average correctness rate is rateSum/sampleCount when the
\* sample count is > 0 and "N/A" when it is 0 (so nothing is divided by a zero
\* count): in a.py for the tuple appended after a scan, in b.py for every row
\* of the printed table.
C14_AverageRateOrNotApplicable ==
    /\ [](script = "b" =>
            \A k \in DOMAIN b_table :
                /\ k \in DOMAIN school_stats
                /\ b_table[k].correct_rate =
                      ClaimedAverageRate(school_stats[k].total_correct_rate_sum,
                                         school_stats[k].correct_rate_count))
    /\ [][(script = "a" /\ a_pc \in {"scan", "summarize"} /\ a_pc' = "main") =>
             /\ Len(results') = Len(results) + 1
             /\ results'[Len(results')].correct_rate =
                   ClaimedAverageRate(sum_of_valid_correct_rates,
                                      count_of_valid_correct_rates)]_vars

\* C14 witness: b.py printed "N/A" for school A, whose only rate is not
\* numeric, and 1.00% for school B, whose only rate is 0.01
C14_Witness ==
    /\ script = "b" /\ b_pc = "done"
    /\ DOMAIN b_table = {"A", "B"}
    /\ school_stats["A"].correct_rate_count = 0
    /\ b_table["A"].correct_rate = NA
    /\ school_stats["B"].correct_rate_count = 1
    /\ b_table["B"].correct_rate = Pct(100)

\* C15: two data rows of one school with (assigned 10, completed 8, rate 0.80)
\* and (assigned 5, completed 5, rate 0.60) give assigned 15, completed 13,
\* completion rate 86.67% and average rate 70.00% (a.py).
C15_TwoRowScenario ==
    script = "a" =>
        \A i \in 1..Len(results) :
            (AParsed(a_files[i])
             /\ SubSeq(a_files[i].all_rows, ScanStart(a_files[i]), Len(a_files[i].all_rows))
                = <<MkRow("301", "10", "8", "0.80"), MkRow("302", "5", "5", "0.60")>>)
            => /\ results[i].assigned = 15 /\ results[i].completed = 13
               /\ results[i].completion_rate = Pct(8667)
               /\ results[i].correct_rate = Pct(7000)

\* C15 witness: a.py scanned the two-class block and appended its tuple
C15_Witness ==
    /\ script = "a" /\ Len(results) >= 1
    /\ a_files[1] = TwoClassFile
    /\ results[1].assigned = 15 /\ results[1].completed = 13

\* b.py: a row the scan accepts (more than 16 columns, a school name that is
\* not blank) and the key it is aggregated under
AcceptedRowB(row) == Len(row) > 16 /\ ~BlankCount(row[4])

KeyOf(row) == Strip(row[4])

\* b.py: file number i was read to its end under some encoding and aggregated
AggregatedFile(i) ==
    \E n \in 1..Len(b_attempts) : b_attempts[n].file = i /\ b_attempts[n].outcome = "ok"

\* b.py: the accepted rows of key k in the files aggregated so far
AcceptedRowsOf(k) ==
    UNION { {<<i, j>> : j \in {n \in 1..Len(b_files[i].rows) :
                                  /\ AcceptedRowB(b_files[i].rows[n])
                                  /\ KeyOf(b_files[i].rows[n]) = k}} :
            i \in {m \in 1..Len(b_files) : AggregatedFile(m)} }

\* C16: SchoolStat lifecycle in b.py.  A record exists only for a key that an
\* accepted row of an aggregated file carries, and it then has at least one
\* assigned task; a step never removes a key and never lowers one of the three
\* counters of a record; and reporting (print_stats_table and what follows
\* the parse) leaves the mapping as it is, the table having one row per record.
C16_SchoolStatLifecycle ==
    /\ [](script = "b" =>
            /\ \A k \in DOMAIN school_stats :
                  /\ AcceptedRowsOf(k) # {}
                  /\ school_stats[k].assigned_tasks >= 1
            /\ DOMAIN b_table \subseteq DOMAIN school_stats)
    /\ [][script = "b" =>
            /\ DOMAIN school_stats \subseteq DOMAIN school_stats'
            /\ \A k \in DOMAIN school_stats :
                  /\ school_stats'[k].assigned_tasks >= school_stats[k].assigned_tasks
                  /\ school_stats'[k].completed_tasks >= school_stats[k].completed_tasks
                  /\ school_stats'[k].correct_rate_count >= school_stats[k].correct_rate_count
            /\ (b_pc = "file" /\ b_fi > Len(b_files)) =>
                  /\ school_stats' = school_stats
                  /\ b_table' # b_table => DOMAIN b_table' = DOMAIN school_stats
         ]_vars

\* C16 witness: the record of school A was created by the first file (two
\* rows) and grown by the second, which also created B; the table was printed
\* from the two records
C16_Witness ==
    /\ script = "b" /\ b_pc = "done" /\ Len(b_files) = 2
    /\ DOMAIN school_stats = {"A", "B"}
    /\ DOMAIN parse_csv_for_math_stats(<<b_files[1]>>) = {"A"}
    /\ parse_csv_for_math_stats(<<b_files[1]>>)["A"].assigned_tasks = 2
    /\ school_stats["A"].assigned_tasks = 3
    /\ school_stats["B"].assigned_tasks = 1
    /\ DOMAIN b_table = {"A", "B"}

\* b.py: the message the run ended on
LastMessage == b_log[Len(b_log)].msg

\* C17 (as claimed): when main() discovers no input file, or when no file
\* yields a record, the b.py run ends with a "no data" message as its last
\* output, prints no statistics table, and never ends in a traceback.
C17_NoDataReport ==
    script = "b" =>
        /\ b_pc # "aborted"
        /\ (b_pc = "done" /\ (b_files = <<>> \/ DOMAIN school_stats = {})) =>
              /\ LastMessage \in {"no csv files found", "no statistics were generated"}
              /\ Events("table", 0) = 0
              /\ DOMAIN b_table = {}

\* a.py: the first End row of the block (every cell empty or whitespace-only),
\* 0 when the block has none
FirstEndRow(file) ==
    FirstIn({j \in ScanStart(file)..Len(file.all_rows) : AllBlank(file.all_rows[j])})

\* a.py: the last row of the block that lies before its first End row
LastBeforeEnd(file) ==
    IF FirstEndRow(file) = 0 THEN Len(file.all_rows) ELSE FirstEndRow(file) - 1

\* a.py: the totals the rows number i..n give when each is scanned
RECURSIVE ScanRows(_, _, _, _)
ScanRows(t, rows, i, n) ==
    IF i > n THEN t ELSE ScanRows(ScanRow(t, rows[i]), rows, i + 1, n)

\* b.py: the files without the rows the scan rejects (too few columns, or a
\* blank school name)
WithoutRejectedRows(files) ==
    [i \in 1..Len(files) |->
        [files[i] EXCEPT !.rows = SelectSeq(@, AcceptedRowB)]]

\* C18 (as claimed): a.py's block scan stops at the first End row (every cell
\* empty or whitespace-only): the scan index never passes it and the totals
\* reported are those of the rows before it; b.py's file-wide scan skips a
\* malformed or empty-school row without stopping: the mapping is the one the
\* files without such rows give, and every accepted row of an aggregated file
\* is counted.
C18_StopsAtFirstEnd ==
    /\ script = "a" =>
          /\ a_pc \in {"scan", "summarize"} =>
                (FirstEndRow(a_files[a_fi]) # 0 => a_ri <= FirstEndRow(a_files[a_fi]))
          /\ \A i \in 1..Len(results) :
                AParsed(a_files[i]) =>
                    results[i] = Summary(extract_school_name_from_filepath(i),
                                         ScanRows(ZeroTotals, a_files[i].all_rows,
                                                  ScanStart(a_files[i]),
                                                  LastBeforeEnd(a_files[i])))
    /\ script = "b" /\ b_pc \in {"file", "done"} /\ b_fi >= 1 =>
          /\ school_stats = parse_csv_for_math_stats(
                                WithoutRejectedRows(SubSeq(b_files, 1, b_fi - 1)))
          /\ \A i \in 1..(b_fi - 1) : \A j \in 1..Len(b_files[i].rows) :
                (AggregatedFile(i) /\ AcceptedRowB(b_files[i].rows[j]))
                => KeyOf(b_files[i].rows[j]) \in DOMAIN school_stats

\* b.py: the accepted rows of key k, in aggregated files, whose rate text
\* (stripped) float() accepts
NumericRowsOf(k) ==
    {p \in AcceptedRowsOf(k) : CanFloat(Strip(b_files[p[1]].rows[p[2]][17]))}

\* C19: in b.py, at every point of a run, every record has
\* completed_tasks = correct_rate_count, assigned_tasks is the number of
\* accepted rows (more than 16 columns, non-blank school name) of that school
\* in the files aggregated so far, and completed_tasks is the number of those
\* rows whose rate text parses as a number.
C19_CompletedMeansNumericRate ==
    script = "b" =>
        \A k \in DOMAIN school_stats :
            /\ school_stats[k].completed_tasks = school_stats[k].correct_rate_count
            /\ school_stats[k].assigned_tasks = Cardinality(AcceptedRowsOf(k))
            /\ school_stats[k].completed_tasks = Cardinality(NumericRowsOf(k))

\* C19 witness: school A has two accepted rows, one with a numeric rate and
\* one without: two assigned tasks, one completed, one rate sample
C19_Witness ==
    /\ script = "b" /\ b_pc = "done"
    /\ "A" \in DOMAIN school_stats
    /\ school_stats["A"].assigned_tasks = 2
    /\ school_stats["A"].completed_tasks = 1
    /\ school_stats["A"].correct_rate_count = 1
    /\ Cardinality(AcceptedRowsOf("A")) = 2

\* b.py: the mapping that results when the rows of each aggregated file among
\* the first n are added exactly once, in list order
RECURSIVE AddedOnce(_)
AddedOnce(n) ==
    IF n = 0 THEN NoStats
    ELSE IF AggregatedFile(n)
         THEN Aggregate(AddedOnce(n - 1), TempData(b_files[n].rows))
         ELSE AddedOnce(n - 1)

\* b.py: the attempt about to be made fails with a decode error
DecodeErrorAhead ==
    /\ script = "b" /\ b_pc = "enc" /\ b_ei <= Len(encodings_to_try)
    /\ AttemptOutcome(b_files[b_fi], encodings_to_try[b_ei]) = "decode_error"

\* C20: in b.py an attempt that ends in a decode error, rows having been read
\* or not, leaves the mapping exactly as it was; no file has more than one
\* successful attempt; and the mapping is at every point the one obtained by
\* adding the rows of each aggregated file once.
C20_FailedAttemptLeavesMapping ==
    /\ [](script = "b" /\ b_fi >= 1 =>
            /\ \A i \in 1..Len(b_files) :
                  Len(SelectSeq(AttemptsOf(i), LAMBDA a : a.outcome = "ok")) <= 1
            /\ school_stats = AddedOnce(IF b_fi > Len(b_files) THEN Len(b_files) ELSE b_fi))
    /\ [][DecodeErrorAhead => school_stats' = school_stats]_vars

\* C20 witness: "utf-8" failed on a Big5 file after its data row had been
\* read, "big5" then read the file, and the row was counted once
C20_Witness ==
    /\ script = "b" /\ b_pc = "endfile" /\ b_fi = 1 /\ file_processed
    /\ b_files[1].rows = <<MkRowB("A", "2.56")>>
    /\ b_files[1].rows_before_error = 1
    /\ Len(AttemptsOf(1)) = 2
    /\ AttemptsOf(1)[1].outcome = "decode_error"
    /\ AttemptsOf(1)[2].outcome = "ok"
    /\ school_stats["A"].assigned_tasks = 1

\* a.py: the step adds both counts of the row it scans
BothCountsAdded ==
    /\ Len(CurRow) > math_correct_rate_col
    /\ CountParses(AssignedStr(CurRow)) /\ CountParses(CompletedStr(CurRow))
    /\ total_math_assigned' = total_math_assigned + CountOf(AssignedStr(CurRow))
    /\ total_math_completed' = total_math_completed + CountOf(CompletedStr(CurRow))

\* C21: in a.py every step of the scan applies its row atomically to the
\* count totals: either both the assigned and the completed value of the row
\* are added, or none of the four totals changes; a rate sample is therefore
\* added only by a step that added both counts.
C21_RowAppliedAtomically ==
    [][ScanningRow =>
          /\ \/ BothCountsAdded
             \/ UNCHANGED <<total_math_assigned, total_math_completed,
                            sum_of_valid_correct_rates, count_of_valid_correct_rates>>
          /\ (count_of_valid_correct_rates' # count_of_valid_correct_rates
              \/ sum_of_valid_correct_rates' # sum_of_valid_correct_rates)
             => BothCountsAdded
      ]_vars

\* C21 witness: a row with assigned 3, completed "abc" and rate 0.8 was
\* scanned and added nothing; the next row (3, 2, 0.8) added both counts and
\* its rate
C21_Witness ==
    /\ script = "a" /\ a_pc = "scan" /\ a_ri = 5
    /\ a_files[a_fi].all_rows = <<TestRow, HeaderRow, MkRow("301", "3", "abc", "0.8"),
                                  MkRow("301", "3", "2", "0.8")>>
    /\ Totals = [assigned |-> 3, completed |-> 2, rate_sum |-> 80, rate_count |-> 1]

\* a.py: the first row whose first cell is the sentinel "測驗", 0 when no row
\* has it
FirstSentinel(rows) ==
    FirstIn({j \in 1..Len(rows) : rows[j] # <<>> /\ rows[j][1] = TestToken})

\* a.py: the last row the scan reaches when it starts at row number i: the
\* one before the row it breaks on, or the last row of the file
LastScanned(rows, i) ==
    LET stops == {j \in i..Len(rows) : RowControl(rows[j]) = "break"}
    IN  IF stops = {} THEN Len(rows) ELSE FirstIn(stops) - 1

\* C22: in a.py only rows at least two positions after the first row whose
\* first cell is "測驗" contribute: the scan index is never before that
\* position, the totals change only in a step of the scan, and the tuple of a
\* file is the one the rows from that position on give (preamble, sentinel
\* row and header row play no part); a file read without such a row yields
\* zero counts and "N/A" for both rates.
C22_OnlyRowsAfterSentinel ==
    /\ [](script = "a" =>
            /\ a_pc \in {"scan", "summarize"} =>
                  /\ FirstSentinel(a_files[a_fi].all_rows) # 0
                  /\ a_ri >= FirstSentinel(a_files[a_fi].all_rows) + 2
            /\ \A i \in 1..Len(results) :
                  LET rows == a_files[i].all_rows
                      first == FirstSentinel(rows)
                  IN  (~AFails(a_files[i])) =>
                          IF first = 0
                          THEN /\ results[i].assigned = 0 /\ results[i].completed = 0
                               /\ results[i].completion_rate = NA
                               /\ results[i].correct_rate = NA
                          ELSE results[i] =
                                  Summary(extract_school_name_from_filepath(i),
                                          ScanRows(ZeroTotals, rows, first + 2,
                                                   LastScanned(rows, first + 2))))
    /\ [][(script = "a" /\ Totals' # Totals /\ Totals' # ZeroTotals) => ScanningRow]_vars

\* C22 witness: a file with a full data row before the "測驗" row and another
\* in the header position gave the counts of its one row after the header;
\* the next file, without a "測驗" row, gave zero counts and "N/A" rates
C22_Witness ==
    /\ script = "a" /\ Len(results) = 2
    /\ a_files[1].all_rows = <<GoodRow, TestRow, GoodRow, GoodRow>>
    /\ results[1].assigned = 3 /\ results[1].completed = 2
    /\ a_files[2].all_rows = <<GoodRow, HeaderRow, GoodRow>>
    /\ results[2] = EmptySummary(extract_school_name_from_filepath(2))

====
